---------------------------- MODULE Spec2Model ----------------------------
(***************************************************************************)
(* Streaming ASR session machinery of faster_whisper/line_packet.py:       *)
(* the line framing (send_one_line / receive_one_line), the Connection     *)
(* wrapper with duplicate suppression, and ServerProcessor (audio          *)
(* accumulation, timestamp stitching, the per-connection loop); the        *)
(* WebSocket adapter of whisper_online_wbServer.py (handle_client and      *)
(* WebSocketASRProcessor); and the file driver of whisper_online.py in     *)
(* its three timing modes.                                                 *)
(*                                                                         *)
(* Conventions.  None is the empty sequence and a present value x is the   *)
(* one-element sequence <<x>>.  Text is a sequence of characters, bytes a  *)
(* sequence of byte tokens.  Engine timestamps are counted in ticks, with  *)
(* TicksPerMs ticks to the millisecond, so that o[0]*1000 is a fraction    *)
(* that "%1.0f" has to round.  PACKET_SIZE and SAMPLING_RATE are the       *)
(* program's constants scaled down so that several packets and several     *)
(* chunks occur within the bounds.                                         *)
(***************************************************************************)
EXTENDS Integers, Sequences, FiniteSets, TLC

\* ------------------------------------------------------------------ bounds
MaxLen == 3
MaxBytes == 8
MaxTick == 3
MaxMinChunk == 1
MaxSends == 3
TicksPerMs == 2
MaxMsgs == 3
MaxMsgLen == 2
MaxChunk == 2
MaxDuration == 3
MaxDelay == 1
MaxPaths == 3
MaxRequests == 4
MaxLines == 2
MaxLineLen == 2

\* ------------------------------------------------- program constants (scaled)
PACKET_SIZE == 3
SAMPLING_RATE == 2
LRU_MAXSIZE == 2

None == << >>
Some(x) == << x >>

\* ------------------------------------------------------------ characters
\* "NL" is \n, "NUL" is \0, "CR" stands for the other terminators of
\* str.splitlines, "SUR" is a lone surrogate (not encodable), "E" a character
\* of two UTF-8 bytes "E1" "E2", "FFFD" the replacement character.
Chars == {"a", "NL", "NUL", "CR", "SUR", "E"}

RECURSIVE SeqsUpTo(_, _)
SeqsUpTo(S, n) ==
    IF n = 0 THEN { << >> }
    ELSE LET shorter == SeqsUpTo(S, n - 1)
         IN  shorter \cup { Append(s, c) : s \in {t \in shorter : Len(t) = n - 1}, c \in S }

RECURSIVE Flatten(_)
Flatten(ss) == IF ss = << >> THEN << >> ELSE Head(ss) \o Flatten(Tail(ss))

\* The prefix of s before its first element in stops (all of s if none).
RECURSIVE UpToFirst(_, _)
UpToFirst(s, stops) ==
    IF s = << >> \/ Head(s) \in stops THEN << >>
    ELSE << Head(s) >> \o UpToFirst(Tail(s), stops)

\* str.splitlines() and then lines[0], '' when there is no line.
SplitlinesFirst(text) == UpToFirst(text, {"NL", "CR"})

\* str.encode('utf-8', errors='replace')
RECURSIVE encode(_)
encode(text) ==
    IF text = << >> THEN << >>
    ELSE (CASE Head(text) = "SUR" -> << "?" >>
            [] Head(text) = "E"   -> << "E1", "E2" >>
            [] OTHER              -> << Head(text) >>) \o encode(Tail(text))

\* bytes.decode('utf-8', errors='replace')
RECURSIVE decode(_)
decode(bytes) ==
    IF bytes = << >> THEN << >>
    ELSE IF Head(bytes) = "E1" /\ Len(bytes) >= 2 /\ bytes[2] = "E2"
         THEN << "E" >> \o decode(Tail(Tail(bytes)))
    ELSE IF Head(bytes) \in {"E1", "E2"}
         THEN << "FFFD" >> \o decode(Tail(bytes))
    ELSE << Head(bytes) >> \o decode(Tail(bytes))

\* str.strip('\0')
RECURSIVE lstrip(_)
lstrip(s) == IF s # << >> /\ Head(s) = "NUL" THEN lstrip(Tail(s)) ELSE s

RECURSIVE rstrip(_)
rstrip(s) ==
    IF s # << >> /\ s[Len(s)] = "NUL" THEN rstrip(SubSeq(s, 1, Len(s) - 1)) ELSE s

strip(s) == rstrip(lstrip(s))

\* str.split('\n')[0]
SplitFirst(text) == UpToFirst(text, {"NL"})

Zeros(n) == [i \in 1..n |-> "NUL"]

\* --------------------------------------------------------- send_one_line
\* text.replace('\0', '\n') on line 43 builds a new string that is dropped:
\* str is immutable, so text is what splitlines sees.
SendData(text, pad_zeros) ==
    encode(SplitlinesFirst(text)) \o << "NL" >> \o (IF pad_zeros THEN << "NUL" >> ELSE << >>)

\* A short last packet left short whatever pad_zeros says.
PacketAtUnpadded(data, offset, pad_zeros) ==
    SubSeq(data, offset + 1,
           IF Len(data) - offset < PACKET_SIZE THEN Len(data) ELSE offset + PACKET_SIZE)

\* The packet the loop of send_one_line builds at offset (0-based).
PacketAt(data, offset, pad_zeros) ==
    LET bytes_remaining == Len(data) - offset
    IN  IF bytes_remaining < PACKET_SIZE
        THEN SubSeq(data, offset + 1, Len(data))
             \o (IF pad_zeros THEN Zeros(PACKET_SIZE - bytes_remaining) ELSE << >>)
        ELSE SubSeq(data, offset + 1, offset + PACKET_SIZE)

\* for offset in range(0, len(data), PACKET_SIZE): the packets, in order.
Packets(data, pad_zeros) ==
    [k \in 1..((Len(data) + PACKET_SIZE - 1) \div PACKET_SIZE)
        |-> PacketAt(data, (k - 1) * PACKET_SIZE, pad_zeros)]

send_one_line(text, pad_zeros) == Packets(SendData(text, pad_zeros), pad_zeros)

\* ------------------------------------------------------ receive_one_line
\* The value returned once the loop has left with the accumulated data.
ReceivedLine(data) == SplitFirst(strip(decode(data))) \o << "NL" >>


\* ------------------------------------------------------------------ state
VARIABLES
    \* framing: one send_one_line / receive_one_line exchange
    text,        \* the argument of send_one_line
    pad_zeros,   \* its pad_zeros argument
    f_pc,        \* "send" | "sent" | "closed": the sender's position
    chan,        \* packets handed to sendall and not yet received
    data,        \* receive_one_line's data
    r_pc,        \* "recv" | "done": the receiver's position
    line_rx,     \* what receive_one_line returned (Some(line), or None)
    \* Connection
    last_line,   \* Connection.last_line
    wire,        \* the transmissions made by Connection.send, each its packets
    broken,      \* the transport is broken: sendall raises BrokenPipeError
    calls,       \* the last two calls of Connection.send
    n_calls,     \* how many calls of Connection.send there were
    \* the peer's side of the audio stream
    peer,        \* "open" | "closed" | "reset"
    sent,        \* audio bytes the peer has written (byte i is the i-th)
    rcvd,        \* audio bytes conn.recv has handed over
    \* ServerProcessor
    pc,          \* "start" | "recv" | "iter" | "done": position in process()
    min_chunk,   \* ServerProcessor.min_chunk
    last_end,    \* ServerProcessor.last_end, in ticks (None at first)
    is_first,    \* ServerProcessor.is_first
    out,         \* receive_audio_chunk's out: the decoded reads of this call
    a,           \* what receive_audio_chunk returned last (Some(audio), or None)
    o,           \* the segment the engine returned last
    engine_log,  \* the calls made on online_asr_proc, in order
    emitted,     \* what format_output_transcript returned, in order
    exc,         \* the exception that left process(), if one did (else None)
    \* WebSocket adapter: one handle_client and its WebSocketASRProcessor
    ws_pc,          \* "open" while handle_client is in its message loop
    min_chunk_size, \* WebSocketASRProcessor.min_chunk_size
    audio_buffer,   \* WebSocketASRProcessor.audio_buffer: each byte is the
                    \* number of the message that brought it
    temp_files,     \* WebSocketASRProcessor.temp_files
    ws_disk,        \* the temporary files that exist, by number
    ws_made,        \* how many temporary files were created
    ws_in,          \* the messages received, in order
    ws_sent,        \* the messages sent to the client, in order
    \* file driver: whisper_online.py run as a program
    d_pc,           \* where the program is
    offline,        \* args.offline
    comp_unaware,   \* args.comp_unaware
    duration,       \* duration of the audio file (ticks)
    d_min_chunk,    \* min_chunk (ticks)
    start_at,       \* args.start_at (ticks)
    d_beg,          \* beg
    d_end,          \* end
    d_now,          \* now: None, or Some(ticks)
    clock,          \* time.time() - start (ticks)
    d_log,          \* the calls made on online, in order
    d_chunks,       \* the windows and sample ranges of the chunks inserted
    d_out,          \* the lines output_transcript printed
    d_ret,          \* the segments process_iter and finish returned, in order
    d_engine,       \* asr_factory was called
    d_loads,        \* the calls of load_audio made, load_audio_chunk's too
    exit_code,      \* the status of sys.exit, if it was called (else None)
    \* FastAPI server: read_root and the cache of load_audio
    cache,          \* the paths lru_cache holds, least recently used first
    decodes,        \* how many times librosa.load decoded each path
    api_calls,      \* the calls of load_audio, by path, in order
    api_log,        \* the calls made on engine objects, with the request
    api_out,        \* what the requests returned, in order
    \* lines sent with send_one_line over a byte stream, read back
    st_lines,       \* the lines the sender sends
    st_next,        \* the number of the line it sends next
    st_open,        \* the sender has not closed the stream
    stream,         \* the bytes under way
    st_pc,          \* "recv" while the receiver calls receive_one_line
    st_data,        \* data of the receive_one_line call under way
    st_got          \* the lines the calls returned, in order

framerVars == << text, pad_zeros, f_pc, chan, data, r_pc, line_rx >>
connVars == << last_line, wire, broken, calls, n_calls >>
peerVars == << peer, sent, rcvd >>
procVars == << pc, min_chunk, last_end, is_first, out, a, o, engine_log, emitted, exc >>
wsVars == << ws_pc, min_chunk_size, audio_buffer, temp_files, ws_disk, ws_made,
            ws_in, ws_sent >>
drvVars == << d_pc, offline, comp_unaware, duration, d_min_chunk, start_at, d_beg, d_end,
             d_now, clock, d_log, d_chunks, d_out, d_ret, d_engine, d_loads,
             exit_code >>
apiVars == << cache, decodes, api_calls, api_log, api_out >>
streamVars == << st_lines, st_next, st_open, stream, st_pc, st_data, st_got >>
vars == << framerVars, connVars, peerVars, procVars, wsVars, drvVars, apiVars,
          streamVars >>

\* ---------------------------------------------------------------- framing
FramerInit ==
    /\ text \in SeqsUpTo(Chars, MaxLen)
    /\ pad_zeros \in BOOLEAN
    /\ f_pc = "send"
    /\ chan = << >>
    /\ data = << >>
    /\ r_pc = "recv"
    /\ line_rx = None

FramerIdle ==
    /\ text = << >>
    /\ pad_zeros = FALSE
    /\ f_pc = "closed"
    /\ chan = << >>
    /\ data = << >>
    /\ r_pc = "done"
    /\ line_rx = None

\* send_one_line(socket, text, pad_zeros): every packet goes to sendall.
SendOneLine ==
    /\ f_pc = "send"
    /\ chan' = chan \o send_one_line(text, pad_zeros)
    /\ f_pc' = "sent"
    /\ UNCHANGED << text, pad_zeros, data, r_pc, line_rx >>

\* The sender closes its socket.
SenderClose ==
    /\ f_pc = "sent"
    /\ f_pc' = "closed"
    /\ UNCHANGED << text, pad_zeros, chan, data, r_pc, line_rx >>

\* One turn of the loop of receive_one_line, recv handing over one packet:
\* the packet joins data, and a NUL in it ends the loop and the call.
RecvPacket ==
    /\ r_pc = "recv"
    /\ chan # << >>
    /\ LET packet == Head(chan)
       IN  /\ data' = data \o packet
           /\ chan' = Tail(chan)
           /\ IF \E i \in 1..Len(packet) : packet[i] = "NUL"
              THEN /\ line_rx' = Some(ReceivedLine(data'))
                   /\ r_pc' = "done"
              ELSE UNCHANGED << line_rx, r_pc >>
    /\ UNCHANGED << text, pad_zeros, f_pc >>

\* The line of what had been received when the source ran dry.
ClosedResultLine(d) == IF d = << >> THEN None ELSE Some(ReceivedLine(d))

\* if not packet: return None, data being what the packets before added up to.
ClosedResult(d) == None

\* recv returns b'' (the connection has been closed): return None.
RecvClosed ==
    /\ r_pc = "recv"
    /\ chan = << >>
    /\ f_pc = "closed"
    /\ line_rx' = ClosedResult(data)
    /\ r_pc' = "done"
    /\ UNCHANGED << text, pad_zeros, f_pc, chan, data >>

\* ------------------------------------------------------------- Connection
ConnInit ==
    /\ last_line = << >>
    /\ wire = << >>
    /\ broken = FALSE
    /\ calls = << >>
    /\ n_calls = 0

LastTwo(s) == IF Len(s) > 2 THEN SubSeq(s, Len(s) - 1, Len(s)) ELSE s

Call(line, transmitted, raised) ==
    [line |-> line, before |-> last_line, sent |-> transmitted, raised |-> raised]

\* if line == self.last_line: return
SendIsNoop(line) == line = last_line

\* last_line left as it was after a transmission.
RecordLastStale(line) == last_line

\* self.last_line = line, after send_one_line returned
RecordLast(line) == line

\* sendall raises: the line has to go out and cannot.  A broken transport
\* gives BrokenPipeError (EPIPE); a reset by the peer that no recv has reported
\* yet gives ConnectionResetError (ECONNRESET).
SendRaises(line) == ~SendIsNoop(line) /\ (broken \/ peer = "reset")

\* The exception sendall raises when it does.
SendError == IF broken THEN "BrokenPipeError" ELSE "ConnectionResetError"

\* Connection.send(line).  When sendall raises, last_line is not set.
ConnectionSend(line) ==
    /\ n_calls' = n_calls + 1
    /\ IF SendIsNoop(line)
       THEN /\ calls' = LastTwo(Append(calls, Call(line, FALSE, FALSE)))
            /\ UNCHANGED << last_line, wire >>
       ELSE IF broken \/ peer = "reset"
       THEN /\ calls' = LastTwo(Append(calls, Call(line, FALSE, TRUE)))
            /\ UNCHANGED << last_line, wire >>
       ELSE /\ wire' = Append(wire, send_one_line(line, FALSE))
            /\ last_line' = RecordLast(line)
            /\ calls' = LastTwo(Append(calls, Call(line, TRUE, FALSE)))

\* The lines a caller hands to Connection.send.
SendLines == SeqsUpTo({"a", "NL"}, 2)

\* A call of Connection.send(line) by any caller.
SendCall ==
    /\ n_calls < MaxSends
    /\ \E line \in SendLines : ConnectionSend(line)
    /\ UNCHANGED << broken, framerVars, peerVars, procVars >>
    /\ UNCHANGED << wsVars, drvVars, apiVars, streamVars >>

\* ------------------------------------------------------------------- peer
PeerInit ==
    /\ peer = "open"
    /\ sent = 0
    /\ rcvd = 0

\* The client writes one more byte of PCM audio.
PeerSendAudio ==
    /\ peer = "open"
    /\ sent < MaxBytes
    /\ sent' = sent + 1
    /\ UNCHANGED << peer, rcvd, framerVars, connVars, procVars >>
    /\ UNCHANGED << wsVars, drvVars, apiVars, streamVars >>

\* The client closes the connection: the bytes in flight are still delivered.
PeerClose ==
    /\ peer = "open"
    /\ peer' = "closed"
    /\ UNCHANGED << sent, rcvd, framerVars, connVars, procVars >>
    /\ UNCHANGED << wsVars, drvVars, apiVars, streamVars >>

\* The client resets the connection: recv raises ConnectionResetError.
PeerReset ==
    /\ peer = "open"
    /\ peer' = "reset"
    /\ UNCHANGED << sent, rcvd, framerVars, connVars, procVars >>
    /\ UNCHANGED << wsVars, drvVars, apiVars, streamVars >>

\* After the peer has gone, writes start to fail with BrokenPipeError.
PipeBreak ==
    /\ peer # "open"
    /\ ~broken
    /\ broken' = TRUE
    /\ UNCHANGED << last_line, wire, calls, n_calls, peerVars, framerVars, procVars >>
    /\ UNCHANGED << wsVars, drvVars, apiVars, streamVars >>

\* -------------------------------------------------------- ServerProcessor
\* The engine's segment (beg, end, text): beg and end in ticks, or
\* (None, None, "") when nothing was recognised.
NoSegment == [start |-> None, end |-> None, text |-> << >>]

EngineTexts == { << "a" >>, << "b" >> }

Segments ==
    { NoSegment } \cup
    { [start |-> Some(b), end |-> Some(e), text |-> t] :
        b \in 0..MaxTick, e \in 0..MaxTick, t \in EngineTexts }

ProcInit ==
    /\ pc = "start"
    /\ min_chunk \in 1..MaxMinChunk
    /\ last_end = None
    /\ is_first = TRUE
    /\ out = << >>
    /\ a = None
    /\ o = NoSegment
    /\ engine_log = << >>
    /\ emitted = << >>
    /\ exc = None

\* minlimit = self.min_chunk*SAMPLING_RATE
minlimit == min_chunk * SAMPLING_RATE

\* sum(len(x) for x in out)
SumLen(xs) == Len(Flatten(xs))

\* The PCM_16 samples of the k bytes that follow byte `from`: sample i is the
\* pair of bytes i, i+1.  A RAW file of k bytes has k div 2 frames of two
\* bytes, so a last odd byte makes no sample and is lost.
DecodePCM(from, k) == [j \in 1..(k \div 2) |-> from + 2 * j - 1]

\* "%1.0f" of ticks/TicksPerMs milliseconds: the nearest integer, a tie to
\* the even one.
Round(t) ==
    LET q == t \div TicksPerMs
        r == t % TicksPerMs
    IN  IF 2 * r < TicksPerMs THEN q
        ELSE IF 2 * r > TicksPerMs THEN q + 1
        ELSE IF q % 2 = 0 THEN q ELSE q + 1

Max(x, y) == IF x >= y THEN x ELSE y

\* The start taken from the engine as it is.
ClampBegOff(beg, le) == beg

\* beg = max(beg, self.last_end), when last_end is set
ClampBeg(beg, le) == IF le # None THEN Max(beg, le[1]) ELSE beg

\* self.last_end = end
NextLastEnd(beg, end) == Some(end)

\* "%1.0f %1.0f %s" % (beg, end, o[2])
FormatLine(beg, end, txt) ==
    << ToString(Round(beg)), " ", ToString(Round(end)), " " >> \o txt

\* if o[0] is not None
HasStart(seg) == seg.start # None

\* An else branch that forgets the last end.
NoTextReset == [msg |-> None, beg |-> 0, end |-> 0, last_end |-> None]

\* The else branch of format_output_transcript: nothing to send, and
\* last_end as it was.
NoText == [msg |-> None, beg |-> 0, end |-> 0, last_end |-> last_end]

\* format_output_transcript(o): the message (None for a segment without a
\* start), the two numbers printed in it, and self.last_end after the call.
format_output_transcript(seg) ==
    IF HasStart(seg)
    THEN LET beg == ClampBeg(seg.start[1], last_end)
             end == seg.end[1]
         IN  [msg |-> Some(FormatLine(beg, end, seg.text)),
              beg |-> Round(beg), end |-> Round(end),
              last_end |-> NextLastEnd(beg, end)]
    ELSE NoText

\* The engine calls process() makes when the session loop has ended.
CallsAtEnd == << >>

\* process(): self.online_asr_proc.init(), then into receive_audio_chunk.
ProcessStart ==
    /\ pc = "start"
    /\ engine_log' = Append(engine_log, "init")
    /\ out' = << >>
    /\ pc' = "recv"
    /\ UNCHANGED << min_chunk, last_end, is_first, a, o, emitted, exc >>
    /\ UNCHANGED << framerVars, connVars, peerVars >>
    /\ UNCHANGED << wsVars, drvVars, apiVars, streamVars >>

\* One turn of the while loop of receive_audio_chunk with bytes to read:
\* recv hands over k of them, which are decoded and appended to out.
RecvAudio ==
    /\ pc = "recv"
    /\ SumLen(out) < minlimit
    /\ peer # "reset"
    /\ \E k \in 1..(sent - rcvd) :
          /\ out' = Append(out, DecodePCM(rcvd, k))
          /\ rcvd' = rcvd + k
    /\ UNCHANGED << pc, min_chunk, last_end, is_first, a, o, engine_log, emitted, exc >>
    /\ UNCHANGED << peer, sent, framerVars, connVars >>
    /\ UNCHANGED << wsVars, drvVars, apiVars, streamVars >>

\* receive_audio_chunk without the is_first test.
ChunkReturnedUngated == IF out = << >> THEN None ELSE Some(Flatten(out))

\* receive_audio_chunk holding back every short buffer, first or not.
ChunkReturnedAllGated ==
    IF out = << >> THEN None
    ELSE IF Len(Flatten(out)) < minlimit THEN None
    ELSE Some(Flatten(out))

\* receive_audio_chunk returning the last read only.
ChunkReturnedLastRead ==
    IF out = << >> THEN None
    ELSE IF is_first /\ Len(Flatten(out)) < minlimit THEN None
    ELSE Some(out[Len(out)])

\* The value receive_audio_chunk returns with `out` as it stands.
ChunkReturned ==
    IF out = << >> THEN None
    ELSE IF is_first /\ Len(Flatten(out)) < minlimit THEN None
    ELSE Some(Flatten(out))

\* A loop that takes only a reset, not b'', for the end of the stream.
LoopEndsOnReset == SumLen(out) >= minlimit \/ peer = "reset"

\* The while loop of receive_audio_chunk is left: the condition fails, or
\* `not raw_bytes` (recv returned b'' on a closed connection with nothing left
\* to read, or non_blocking_receive_audio returned None on a reset).
LoopEnds ==
    \/ SumLen(out) >= minlimit
    \/ peer = "reset"
    \/ peer = "closed" /\ sent = rcvd

\* except BrokenPipeError: the exceptions of send_result that process()
\* catches, ending the loop.
CaughtOnSend == { "BrokenPipeError" }

\* The while loop ends: enough samples, or recv returned b'' (closed, nothing
\* left to read) or raised ConnectionResetError.  receive_audio_chunk returns
\* and process() breaks on None.  A recv that reported the reset has used the
\* socket's error up: the socket is then at end of stream and writes give
\* BrokenPipeError.
RecvReturn ==
    /\ pc = "recv"
    /\ LoopEnds
    /\ a' = ChunkReturned
    /\ is_first' = IF a' = None THEN is_first ELSE FALSE
    /\ IF a' = None
       THEN /\ pc' = "done"
            /\ engine_log' = engine_log \o CallsAtEnd
       ELSE /\ pc' = "iter"
            /\ UNCHANGED engine_log
    /\ IF SumLen(out) < minlimit /\ peer = "reset"
       THEN /\ peer' = "closed"
            /\ rcvd' = sent
            /\ broken' = TRUE
       ELSE UNCHANGED << peer, rcvd, broken >>
    /\ UNCHANGED << min_chunk, last_end, out, o, emitted, exc >>
    /\ UNCHANGED << sent, last_line, wire, calls, n_calls, framerVars >>
    /\ UNCHANGED << wsVars, drvVars, apiVars, streamVars >>

\* insert_audio_chunk(a); o = process_iter(); send_result(o), the engine
\* returning seg.  send_result sends the message unless it is None.  A
\* BrokenPipeError from the send ends the loop; any other exception of the
\* send leaves process().
ProcessIter ==
    /\ pc = "iter"
    /\ \E seg \in Segments :
          LET f == format_output_transcript(seg)
              raises == f.msg # None /\ SendRaises(f.msg[1])
          IN  /\ o' = seg
              /\ last_end' = f.last_end
              /\ IF f.msg # None
                 THEN /\ emitted' = Append(emitted, [beg |-> f.beg, end |-> f.end])
                      /\ ConnectionSend(f.msg[1])
                 ELSE UNCHANGED << emitted, last_line, wire, calls, n_calls >>
              /\ IF raises /\ SendError \in CaughtOnSend
                 THEN /\ pc' = "done"
                      /\ engine_log' = engine_log
                            \o << "insert_audio_chunk", "process_iter" >> \o CallsAtEnd
                      /\ UNCHANGED << out, exc >>
                 ELSE IF raises
                 THEN /\ pc' = "done"
                      /\ engine_log' = engine_log
                            \o << "insert_audio_chunk", "process_iter" >>
                      /\ exc' = Some(SendError)
                      /\ UNCHANGED out
                 ELSE /\ pc' = "recv"
                      /\ engine_log' = engine_log
                            \o << "insert_audio_chunk", "process_iter" >>
                      /\ out' = << >>
                      /\ UNCHANGED exc
    /\ UNCHANGED << min_chunk, is_first, a, broken >>
    /\ UNCHANGED << framerVars, peerVars >>
    /\ UNCHANGED << wsVars, drvVars, apiVars, streamVars >>

\* The entry of engine_log for a process_iter call that raised AssertionError.
Faulted == "process_iter raises AssertionError"

\* insert_audio_chunk(a); o = process_iter() raising AssertionError.  Nothing
\* in process() catches it: it leaves process().
ProcessIterFault ==
    /\ pc = "iter"
    /\ engine_log' = engine_log \o << "insert_audio_chunk", Faulted >>
    /\ exc' = Some("AssertionError")
    /\ pc' = "done"
    /\ UNCHANGED << min_chunk, last_end, is_first, out, a, o, emitted >>
    /\ UNCHANGED << framerVars, connVars, peerVars >>
    /\ UNCHANGED << wsVars, drvVars, apiVars, streamVars >>

ProcIdle ==
    /\ pc = "done"
    /\ min_chunk = 1
    /\ last_end = None
    /\ is_first = TRUE
    /\ out = << >>
    /\ a = None
    /\ o = NoSegment
    /\ engine_log = << >>
    /\ emitted = << >>
    /\ exc = None

\* -------------------------------------------------- WebSocketASRProcessor
\* handle_client: processor = WebSocketASRProcessor(websocket, asr, min_chunk)
WsInit ==
    /\ ws_pc = "open"
    /\ min_chunk_size \in 1..MaxChunk
    /\ audio_buffer = << >>
    /\ temp_files = << >>
    /\ ws_disk = {}
    /\ ws_made = 0
    /\ ws_in = << >>
    /\ ws_sent = << >>

WsIdle ==
    /\ ws_pc = "closed"
    /\ min_chunk_size = 1
    /\ audio_buffer = << >>
    /\ temp_files = << >>
    /\ ws_disk = {}
    /\ ws_made = 0
    /\ ws_in = << >>
    /\ ws_sent = << >>

\* What can happen past np.frombuffer: wavfile.write raises, transcribe
\* raises, transcribe returns a result with a text, or one without.
WsOutcomes == { "write raises", "transcribe raises", "text", "no text" }

\* The text of a result of asr_model.transcribe.
WsText == << "a" >>

\* f"处理错误: {str(e)}", the string returned for an exception.
WsErrorText == << "processing error" >>

\* np.frombuffer(pcm_data, dtype=np.int16) raises ValueError when the size of
\* the buffer is not a multiple of the two bytes of an element.
FromBufferRaises(pcm_data) == Len(pcm_data) % 2 = 1

\* process_audio_chunk(audio_data) with create_wav_from_pcm: the buffer, the
\* files and the value returned (None when the function falls off its end).
\* An exception leaves the try block before audio_buffer is reset.
process_audio_chunk(audio_data, outcome) ==
    LET buf == audio_buffer \o audio_data
        file == ws_made + 1
        same == [buffer |-> buf, temp_files |-> temp_files, disk |-> ws_disk,
                 made |-> ws_made, ret |-> None]
    IN  IF Len(buf) < min_chunk_size
        THEN same
        ELSE IF FromBufferRaises(buf)
        THEN [same EXCEPT !.ret = Some(WsErrorText)]
        ELSE IF outcome = "write raises"
        THEN [same EXCEPT !.disk = ws_disk \cup {file}, !.made = file,
                          !.ret = Some(WsErrorText)]
        ELSE IF outcome = "transcribe raises"
        THEN [same EXCEPT !.disk = ws_disk \cup {file}, !.made = file,
                          !.temp_files = Append(temp_files, file),
                          !.ret = Some(WsErrorText)]
        ELSE [buffer |-> << >>,
              temp_files |-> Append(temp_files, file),
              disk |-> ws_disk \cup {file},
              made |-> file,
              ret |-> Some(IF outcome = "text" THEN WsText ELSE << >>)]

\* A message sent to the client.
WsReply(type, t, size) == [type |-> type, text |-> t, size |-> size]

\* handle_client, a binary message of n bytes: the transcript when
\* process_audio_chunk returned a string that is not empty, else an ack.
WsBinary ==
    /\ ws_pc = "open"
    /\ Len(ws_in) < MaxMsgs
    /\ \E n \in 0..MaxMsgLen, outcome \in WsOutcomes :
          LET message == [i \in 1..n |-> Len(ws_in) + 1]
              r == process_audio_chunk(message, outcome)
          IN  /\ ws_in' = Append(ws_in, [kind |-> "bytes", len |-> n])
              /\ audio_buffer' = r.buffer
              /\ temp_files' = r.temp_files
              /\ ws_disk' = r.disk
              /\ ws_made' = r.made
              /\ ws_sent' = Append(ws_sent,
                    IF r.ret # None /\ r.ret[1] # << >>
                    THEN WsReply("transcript", r.ret[1], 0)
                    ELSE WsReply("ack", << >>, n))
    /\ UNCHANGED << ws_pc, min_chunk_size >>
    /\ UNCHANGED << framerVars, connVars, peerVars, procVars, drvVars, apiVars, streamVars >>

\* finally: os.unlink of every file in processor.temp_files.
Unlinked == ws_disk \ { temp_files[i] : i \in 1..Len(temp_files) }

\* The text messages: a ping, another JSON object, text that is not JSON,
\* JSON that is not an object (cmd.get raises AttributeError).
WsTextKinds == { "ping", "object", "not json", "not object" }

\* handle_client, a text message: pong for a ping, nothing for another object
\* or for what json.loads rejects; the AttributeError of cmd.get is caught by
\* the outer except and ends the handler through finally.
WsTextMessage ==
    /\ ws_pc = "open"
    /\ Len(ws_in) < MaxMsgs
    /\ \E kind \in WsTextKinds :
          /\ ws_in' = Append(ws_in, [kind |-> kind, len |-> 0])
          /\ ws_sent' = IF kind = "ping"
                        THEN Append(ws_sent, WsReply("pong", << >>, 0))
                        ELSE ws_sent
          /\ IF kind = "not object"
             THEN /\ ws_pc' = "closed"
                  /\ ws_disk' = Unlinked
             ELSE UNCHANGED << ws_pc, ws_disk >>
    /\ UNCHANGED << min_chunk_size, audio_buffer, temp_files, ws_made >>
    /\ UNCHANGED << framerVars, connVars, peerVars, procVars, drvVars, apiVars, streamVars >>

\* The client goes away: the message loop ends and finally runs.
WsClose ==
    /\ ws_pc = "open"
    /\ ws_pc' = "closed"
    /\ ws_disk' = Unlinked
    /\ UNCHANGED << min_chunk_size, audio_buffer, temp_files, ws_made, ws_in, ws_sent >>
    /\ UNCHANGED << framerVars, connVars, peerVars, procVars, drvVars, apiVars, streamVars >>

\* ------------------------------------------------------------ file driver
DriverIdle ==
    /\ d_pc = "idle"
    /\ offline = FALSE
    /\ comp_unaware = FALSE
    /\ duration = 1
    /\ d_min_chunk = 1
    /\ start_at = 0
    /\ d_beg = 0
    /\ d_end = 0
    /\ d_now = None
    /\ clock = 0
    /\ d_log = << >>
    /\ d_chunks = << >>
    /\ d_out = << >>
    /\ d_ret = << >>
    /\ d_engine = FALSE
    /\ d_loads = 0
    /\ exit_code = None

\* The program starts with its arguments parsed and the audio file there.
DriverInit ==
    /\ d_pc = "start"
    /\ offline \in BOOLEAN
    /\ comp_unaware \in BOOLEAN
    /\ duration \in 1..MaxDuration
    /\ d_min_chunk \in 1..MaxChunk
    /\ start_at \in 0..MaxDuration
    /\ d_beg = 0
    /\ d_end = 0
    /\ d_now = None
    /\ clock = 0
    /\ d_log = << >>
    /\ d_chunks = << >>
    /\ d_out = << >>
    /\ d_ret = << >>
    /\ d_engine = FALSE
    /\ d_loads = 0
    /\ exit_code = None

Min(x, y) == IF x <= y THEN x ELSE y

\* len(load_audio(audio_path))
NumSamples == duration * SAMPLING_RATE

\* load_audio_chunk(fname, beg, end): audio[int(beg*16000):int(end*16000)],
\* a slice, so cut at the end of the audio and empty when it starts there.
\* The chunk is the range lo..hi of samples, with the window it was asked for.
load_audio_chunk(b, e) ==
    LET beg_s == Min(b * SAMPLING_RATE, NumSamples)
        end_s == Min(e * SAMPLING_RATE, NumSamples)
    IN  [beg |-> b, end |-> e, lo |-> beg_s, hi |-> Max(beg_s, end_s)]

\* load_audio(audio_path): the whole file.
WholeAudio == [beg |-> 0, end |-> duration, lo |-> 0, hi |-> NumSamples]

\* What the engine returns to the driver.
DriverSegments == { NoSegment, [start |-> Some(0), end |-> Some(1), text |-> << "a" >>] }

\* output_transcript(o, now): the lines printed.  With now None the function
\* returns before it prints.
output_transcript(seg, nw) ==
    IF nw = None THEN << >>
    ELSE IF HasStart(seg) THEN << [now |-> nw[1], seg |-> seg] >>
    ELSE << >>

\* try: o = online.process_iter() / except AssertionError: log / else:
\* output_transcript(o, now): the lines printed.
IterOutput(raised, seg, nw) == IF raised THEN << >> ELSE output_transcript(seg, nw)

\* The driver never calling finish.
NoFinishCalls == << >>

\* o = online.finish() on line 233.
FinishCalls == << "finish" >>

\* Both flags given and the program going on all the same.
NoConfigConflict == FALSE

\* if args.offline and args.comp_unaware
ConfigConflict == offline /\ comp_unaware

\* try: o = online.process_iter() / except AssertionError: the segments
\* returned so far.
Returned(raised, seg) == IF raised THEN d_ret ELSE Append(d_ret, seg)

\* From the start of __main__ to the branch on the mode: both flags given is
\* an error and sys.exit(1); else beg = args.start_at, start = time.time() - beg,
\* and end as the branch sets it before its loop.
DriverStart ==
    /\ d_pc = "start"
    /\ IF ConfigConflict
       THEN /\ exit_code' = Some(1)
            /\ d_pc' = "exited"
            /\ UNCHANGED << d_beg, d_end, clock, d_engine, d_loads >>
       ELSE /\ d_loads' = d_loads + 2
            /\ d_engine' = TRUE
            /\ d_beg' = start_at
            /\ clock' = start_at
            /\ d_end' = IF comp_unaware THEN start_at + d_min_chunk ELSE 0
            /\ d_pc' = IF offline THEN "offline"
                       ELSE IF comp_unaware THEN "comp_unaware" ELSE "live"
            /\ UNCHANGED exit_code
    /\ UNCHANGED << offline, comp_unaware, duration, d_min_chunk, start_at, d_now,
                    d_log, d_chunks, d_out, d_ret >>
    /\ UNCHANGED << framerVars, connVars, peerVars, procVars, wsVars, apiVars, streamVars >>

\* if args.offline: the whole audio in one insert and one process_iter.
OfflineRun ==
    /\ d_pc = "offline"
    /\ \E raised \in BOOLEAN, seg \in DriverSegments :
          /\ d_out' = d_out \o IterOutput(raised, seg, None)
          /\ d_ret' = Returned(raised, seg)
    /\ d_loads' = d_loads + 1
    /\ UNCHANGED d_engine
    /\ d_chunks' = Append(d_chunks, WholeAudio)
    /\ d_log' = d_log \o << "insert_audio_chunk", "process_iter" >>
    /\ d_now' = None
    /\ d_pc' = "finish"
    /\ UNCHANGED << offline, comp_unaware, duration, d_min_chunk, start_at, d_beg,
                    d_end, clock, exit_code >>
    /\ UNCHANGED << framerVars, connVars, peerVars, procVars, wsVars, apiVars, streamVars >>

\* elif args.comp_unaware: one turn of the loop, and now = duration after it.
CompUnawareIter ==
    /\ d_pc = "comp_unaware"
    /\ \E raised \in BOOLEAN, seg \in DriverSegments :
          /\ d_out' = d_out \o IterOutput(raised, seg, Some(d_end))
          /\ d_ret' = Returned(raised, seg)
    /\ d_loads' = d_loads + 1
    /\ UNCHANGED d_engine
    /\ d_chunks' = Append(d_chunks, load_audio_chunk(d_beg, d_end))
    /\ d_log' = d_log \o << "insert_audio_chunk", "process_iter" >>
    /\ IF d_end >= duration
       THEN /\ d_pc' = "finish"
            /\ d_now' = Some(duration)
            /\ UNCHANGED << d_beg, d_end >>
       ELSE /\ d_beg' = d_end
            /\ d_end' = IF d_end + d_min_chunk > duration
                        THEN duration
                        ELSE d_end + d_min_chunk
            /\ UNCHANGED << d_pc, d_now >>
    /\ UNCHANGED << offline, comp_unaware, duration, d_min_chunk, start_at, clock,
                    exit_code >>
    /\ UNCHANGED << framerVars, connVars, peerVars, procVars, wsVars, apiVars, streamVars >>

\* else: one turn of the loop of the simultaneous mode.  The sleep ends at
\* end + min_chunk; the iteration then takes delay ticks.  now = None after
\* the loop.
LiveIter ==
    /\ d_pc = "live"
    /\ LET woke == IF clock < d_end + d_min_chunk THEN d_end + d_min_chunk ELSE clock
       IN  /\ d_end' = woke
           /\ d_chunks' = Append(d_chunks, load_audio_chunk(d_beg, woke))
           /\ d_beg' = woke
           /\ \E delay \in 0..MaxDelay : clock' = woke + delay
           /\ IF woke >= duration
              THEN /\ d_pc' = "finish"
                   /\ d_now' = None
              ELSE /\ d_pc' = "live"
                   /\ d_now' = Some(clock')
    /\ \E raised \in BOOLEAN, seg \in DriverSegments :
          /\ d_out' = d_out \o IterOutput(raised, seg, None)
          /\ d_ret' = Returned(raised, seg)
    /\ d_loads' = d_loads + 1
    /\ UNCHANGED d_engine
    /\ d_log' = d_log \o << "insert_audio_chunk", "process_iter" >>
    /\ UNCHANGED << offline, comp_unaware, duration, d_min_chunk, start_at, exit_code >>
    /\ UNCHANGED << framerVars, connVars, peerVars, procVars, wsVars, apiVars, streamVars >>

\* o = online.finish(); output_transcript(o, now=now)
DriverFinish ==
    /\ d_pc = "finish"
    /\ d_log' = d_log \o FinishCalls
    /\ \E seg \in DriverSegments :
          /\ d_out' = d_out \o output_transcript(seg, d_now)
          /\ d_ret' = Append(d_ret, seg)
    /\ UNCHANGED << d_engine, d_loads >>
    /\ d_pc' = "done"
    /\ UNCHANGED << offline, comp_unaware, duration, d_min_chunk, start_at, d_beg,
                    d_end, d_now, clock, d_chunks, exit_code >>
    /\ UNCHANGED << framerVars, connVars, peerVars, procVars, wsVars, apiVars, streamVars >>

\* ---------------------------------------------------------- FastAPI server
\* fileId of /fileIds/{fileId}, which names the file path.
Paths == 1..MaxPaths

\* The server is up: nothing loaded by a request yet.
ApiInit ==
    /\ cache = << >>
    /\ decodes = [p \in Paths |-> 0]
    /\ api_calls = << >>
    /\ api_log = << >>
    /\ api_out = << >>

ApiIdle ==
    /\ cache = << >>
    /\ decodes = [p \in Paths |-> 0]
    /\ api_calls = << >>
    /\ api_log = << >>
    /\ api_out = << >>

\* A cache that never has the path asked for.
CacheMiss(c, path) == FALSE

\* @lru_cache: the path is a key of the cache.
CacheHit(c, path) == \E i \in 1..Len(c) : c[i] = path

Without(c, path) == SelectSeq(c, LAMBDA q : q # path)

\* @lru_cache(10 ** 6) after load_audio(path): the path is the most recently
\* used; a new key beyond maxsize puts the least recently used one out.
CacheAfter(c, path) ==
    IF CacheHit(c, path)
    THEN Append(Without(c, path), path)
    ELSE IF Len(c) >= LRU_MAXSIZE
    THEN Append(Tail(c), path)
    ELSE Append(c, path)

\* librosa.load runs when the path is not in the cache.
DecodesAfter(c, d, path) ==
    IF CacheHit(c, path) THEN d ELSE [d EXCEPT ![path] = d[path] + 1]

\* The engine object a request works on: the module-level online.
ApiEngine(request) == "online"

\* "%1.0f %1.0f %s" % (text[0] * 1000, ...): a TypeError when text[0] is None.
ApiResponse(seg) == IF HasStart(seg) THEN Some(seg) ELSE None

\* read_root(fileId): load_audio(filePath), load_audio_chunk(filePath, 0,
\* min_chunk) which calls load_audio again, then insert_audio_chunk and
\* process_iter on online.
ReadRoot ==
    /\ Len(api_out) < MaxRequests
    /\ \E fileId \in Paths, seg \in DriverSegments :
          LET request == Len(api_out) + 1
              c1 == CacheAfter(cache, fileId)
              d1 == DecodesAfter(cache, decodes, fileId)
          IN  /\ cache' = CacheAfter(c1, fileId)
              /\ decodes' = DecodesAfter(c1, d1, fileId)
              /\ api_calls' = api_calls \o << fileId, fileId >>
              /\ api_log' = api_log \o
                    << [req |-> request, obj |-> ApiEngine(request),
                        op |-> "insert_audio_chunk"],
                       [req |-> request, obj |-> ApiEngine(request),
                        op |-> "process_iter"] >>
              /\ api_out' = Append(api_out, ApiResponse(seg))
    /\ UNCHANGED << framerVars, connVars, peerVars, procVars, wsVars, drvVars,
                    streamVars >>

\* ------------------------------------------------- lines over a byte stream
\* The lines sent: plain characters, so that the line is all of the text.
StreamTexts == SeqsUpTo({"a", "b"}, MaxLineLen) \ { << >> }

StreamInit ==
    /\ st_lines \in [1..MaxLines -> StreamTexts]
    /\ st_next = 1
    /\ st_open = TRUE
    /\ stream = << >>
    /\ st_pc = "recv"
    /\ st_data = << >>
    /\ st_got = << >>

StreamIdle ==
    /\ st_lines = << >>
    /\ st_next = 1
    /\ st_open = FALSE
    /\ stream = << >>
    /\ st_pc = "done"
    /\ st_data = << >>
    /\ st_got = << >>

\* send_one_line(socket, text, pad_zeros=True) of the next line: sendall puts
\* the packets on the stream one after the other.
StreamSend ==
    /\ st_open
    /\ st_next <= Len(st_lines)
    /\ stream' = stream \o Flatten(send_one_line(st_lines[st_next], TRUE))
    /\ st_next' = st_next + 1
    /\ UNCHANGED << st_lines, st_open, st_pc, st_data, st_got >>
    /\ UNCHANGED << framerVars, connVars, peerVars, procVars, wsVars, drvVars,
                    apiVars >>

\* The sender closes the socket after its last line.
StreamClose ==
    /\ st_open
    /\ st_next > Len(st_lines)
    /\ st_open' = FALSE
    /\ UNCHANGED << st_lines, st_next, stream, st_pc, st_data, st_got >>
    /\ UNCHANGED << framerVars, connVars, peerVars, procVars, wsVars, drvVars,
                    apiVars >>

\* One turn of the loop of receive_one_line: socket.recv(PACKET_SIZE) returns
\* k of the bytes under way, at most PACKET_SIZE; a NUL among them ends the
\* call, which returns its line, and the next call starts with data = b"".
StreamRecv ==
    /\ st_pc = "recv"
    /\ \E k \in 1..Min(PACKET_SIZE, Len(stream)) :
          LET packet == SubSeq(stream, 1, k)
              d == st_data \o packet
          IN  /\ stream' = SubSeq(stream, k + 1, Len(stream))
              /\ IF \E i \in 1..k : packet[i] = "NUL"
                 THEN /\ st_got' = Append(st_got, ReceivedLine(d))
                      /\ st_data' = << >>
                 ELSE /\ st_data' = d
                      /\ UNCHANGED st_got
    /\ UNCHANGED << st_lines, st_next, st_open, st_pc >>
    /\ UNCHANGED << framerVars, connVars, peerVars, procVars, wsVars, drvVars,
                    apiVars >>

\* recv returns b'' on the closed stream: the call returns None and the
\* receiver stops.
StreamRecvClosed ==
    /\ st_pc = "recv"
    /\ stream = << >>
    /\ ~st_open
    /\ st_pc' = "done"
    /\ st_data' = << >>
    /\ UNCHANGED << st_lines, st_next, st_open, stream, st_got >>
    /\ UNCHANGED << framerVars, connVars, peerVars, procVars, wsVars, drvVars,
                    apiVars >>

\* --------------------------------------------------------- specifications
\* One client session served by ServerProcessor.process.
Init == FramerIdle /\ ConnInit /\ PeerInit /\ ProcInit /\ WsIdle /\ DriverIdle
    /\ ApiIdle /\ StreamIdle

Next ==
    \/ ProcessStart
    \/ RecvAudio
    \/ RecvReturn
    \/ ProcessIter
    \/ ProcessIterFault
    \/ PeerSendAudio
    \/ PeerClose
    \/ PeerReset
    \/ PipeBreak

Spec == Init /\ [][Next]_vars

\* The session's thread keeps running: each of its steps is taken when it
\* stays possible.  Nothing is assumed of the peer.
LiveSpec ==
    /\ Spec
    /\ WF_vars(ProcessStart)
    /\ WF_vars(RecvAudio)
    /\ WF_vars(RecvReturn)
    /\ WF_vars(ProcessIter \/ ProcessIterFault)

\* One line sent with send_one_line and read back with receive_one_line.
FramerSpecInit == FramerInit /\ ConnInit /\ PeerInit /\ ProcIdle /\ WsIdle /\ DriverIdle
    /\ ApiIdle /\ StreamIdle

FramerSpecNext ==
    \/ SendOneLine /\ UNCHANGED << connVars, peerVars, procVars, wsVars, drvVars, apiVars,
                        streamVars >>
    \/ SenderClose /\ UNCHANGED << connVars, peerVars, procVars, wsVars, drvVars, apiVars,
                        streamVars >>
    \/ RecvPacket /\ UNCHANGED << connVars, peerVars, procVars, wsVars, drvVars, apiVars,
                        streamVars >>
    \/ RecvClosed /\ UNCHANGED << connVars, peerVars, procVars, wsVars, drvVars, apiVars,
                        streamVars >>

FramerSpec == FramerSpecInit /\ [][FramerSpecNext]_vars

\* Calls of Connection.send on one connection.
SendSpecInit == FramerIdle /\ ConnInit /\ PeerInit /\ ProcIdle /\ WsIdle /\ DriverIdle
    /\ ApiIdle /\ StreamIdle

SendSpecNext == SendCall \/ PeerClose \/ PipeBreak

SendSpec == SendSpecInit /\ [][SendSpecNext]_vars

\* One WebSocket client served by handle_client.
WsSpecInit == FramerIdle /\ ConnInit /\ PeerInit /\ ProcIdle /\ WsInit /\ DriverIdle
    /\ ApiIdle /\ StreamIdle

WsSpecNext == WsBinary \/ WsTextMessage \/ WsClose

WsSpec == WsSpecInit /\ [][WsSpecNext]_vars

\* One run of whisper_online.py on one audio file.
DriverSpecInit == FramerIdle /\ ConnInit /\ PeerInit /\ ProcIdle /\ WsIdle /\ DriverInit
    /\ ApiIdle /\ StreamIdle

DriverSpecNext ==
    \/ DriverStart
    \/ OfflineRun
    \/ CompUnawareIter
    \/ LiveIter
    \/ DriverFinish

DriverSpec == DriverSpecInit /\ [][DriverSpecNext]_vars

\* The requests of one FastAPI server process.
ApiSpecInit ==
    /\ FramerIdle /\ ConnInit /\ PeerInit /\ ProcIdle /\ WsIdle /\ DriverIdle
    /\ ApiInit /\ StreamIdle

ApiSpecNext == ReadRoot

ApiSpec == ApiSpecInit /\ [][ApiSpecNext]_vars

\* Lines sent with send_one_line and read with receive_one_line over a
\* byte stream.
StreamSpecInit ==
    /\ FramerIdle /\ ConnInit /\ PeerInit /\ ProcIdle /\ WsIdle /\ DriverIdle
    /\ ApiIdle /\ StreamInit

StreamSpecNext ==
    \/ StreamSend
    \/ StreamClose
    \/ StreamRecv
    \/ StreamRecvClosed

StreamSpec == StreamSpecInit /\ [][StreamSpecNext]_vars

\* ------------------------------------------------------------- properties
Count(seq, x) == Cardinality({i \in 1..Len(seq) : seq[i] = x})

\* C1: monotonic stitching: every emitted start after the first emission is
\* at least the end of the emission before it.
C1_MonotonicStitching ==
    \A i \in 2..Len(emitted) : emitted[i].beg >= emitted[i - 1].end

\* Two emissions, the second with its start raised to the previous end.
C1_Witness ==
    /\ Len(emitted) >= 2
    /\ HasStart(o)
    /\ pc = "recv"
    /\ Round(o.start[1]) < emitted[Len(emitted)].beg

\* C2: each emitted end timestamp is at least every end emitted before it,
\* whatever the engine's timestamps do.
C2_EndsNonDecreasing ==
    \A i \in 1..Len(emitted) : \A j \in i..Len(emitted) :
        emitted[j].end >= emitted[i].end

\* C3 as stated: send(L) twice in succession, whatever came before, is one
\* transmission, made by the first call.
C3_ExactlyOneTransmission ==
    (Len(calls) = 2 /\ calls[1].line = calls[2].line)
        => (calls[1].sent /\ ~calls[2].sent)

\* C3: send(L) twice in succession: the second call never transmits, and
\* the first transmits exactly when L differs from the line sent last before
\* it (the empty line at first) and the transport is not broken.
C3_AtMostOneTransmission ==
    (Len(calls) = 2 /\ calls[1].line = calls[2].line)
        => /\ ~calls[2].sent
           /\ calls[1].sent <=> (calls[1].line # calls[1].before /\ ~calls[1].raised)

\* The same line sent twice: the first call transmitted, the second did not.
C3_Witness ==
    /\ Len(calls) = 2
    /\ calls[1].line = calls[2].line
    /\ calls[1].sent
    /\ ~calls[2].sent
    /\ ~calls[2].raised

\* NUL counted as a line terminator, as send_one_line documents.
FirstLine(t) == UpToFirst(t, {"NL", "CR", "NUL"})

\* C4: packet round trip: receive_one_line on the packets of
\* send_one_line(L) returns the first line of L and a newline, up to the
\* substitution of what UTF-8 cannot carry.
C4_RoundTrip ==
    r_pc = "done" => line_rx = Some(decode(encode(FirstLine(text))) \o << "NL" >>)

\* C5: first-chunk gating: a call on a session that is still at its first
\* chunk and got fewer than minlimit samples before the stream ended returns
\* None, leaves is_first set, and ends the loop.
C5_FirstChunkGating ==
    [][ (pc = "recv" /\ pc' # "recv" /\ is_first /\ SumLen(out) < minlimit)
            => (a' = None /\ is_first' /\ pc' = "done") ]_vars

\* The first call ended with some samples, fewer than minlimit, and gave None.
C5_Witness ==
    /\ pc = "done"
    /\ is_first
    /\ a = None
    /\ SumLen(out) >= 1
    /\ SumLen(out) < minlimit

\* C6: best-effort drain: after a first successful accumulation, a call that
\* read some samples, fewer than minlimit, before the stream ended returns
\* exactly the samples of its reads, in order.
C6_BestEffortDrain ==
    [][ (pc = "recv" /\ pc' # "recv" /\ ~is_first
            /\ SumLen(out) >= 1 /\ SumLen(out) < minlimit)
            => (a' = Some(Flatten(out)) /\ pc' = "iter") ]_vars

\* A short buffer of two reads was returned.
C6_Witness ==
    /\ pc = "iter"
    /\ a # None
    /\ Len(out) >= 2
    /\ Len(a[1]) >= 1
    /\ Len(a[1]) < minlimit

\* C7 as stated: a call that returned None read no bytes at all.
C7_NoneOnlyWithoutBytes ==
    (pc = "done" /\ a = None) => out = << >>

\* C7: a call that returned None read no bytes at all, or the session was
\* still at its first chunk and the call got fewer than minlimit samples.
C7_NoneOnlyWithoutBytesOrFirst ==
    (pc = "done" /\ a = None)
        => (out = << >> \/ (is_first /\ SumLen(out) < minlimit))

\* None after an earlier successful chunk, with nothing read.
C7_Witness ==
    /\ pc = "done"
    /\ a = None
    /\ ~is_first
    /\ out = << >>

\* C8: an iteration whose segment has no start sends nothing and leaves
\* last_end and the connection's last line as they were.
C8_NullStartFrame ==
    [][ (pc = "iter" /\ pc' # "iter" /\ ~HasStart(o'))
            => UNCHANGED << last_end, last_line, wire, emitted >> ]_vars

\* A segment without a start came after something had been emitted.
C8_Witness ==
    /\ pc = "recv"
    /\ o = NoSegment
    /\ last_end # None
    /\ wire # << >>
    /\ Count(engine_log, "process_iter") >= 2

\* C9: when process has returned, the engine's finish() was called exactly
\* once.
C9_FinishCalledOnce ==
    pc = "done" => Count(engine_log, "finish") = 1

\* The session states of the design: INIT before init(), STREAMING in the
\* loop, FINISHED once process has returned.
State ==
    CASE pc = "start" -> "INIT"
      [] pc \in {"recv", "iter"} -> "STREAMING"
      [] pc = "done" -> "FINISHED"

\* C10: the session goes INIT -> STREAMING -> FINISHED, each step once and
\* in that order, nothing changes the session after FINISHED, and once the
\* peer has closed or reset the connection the session reaches FINISHED.
C10_Lifecycle ==
    /\ [][ /\ State' # State =>
                << State, State' >> \in { << "INIT", "STREAMING" >>,
                                          << "STREAMING", "FINISHED" >> }
           /\ State = "FINISHED" => UNCHANGED << procVars, last_line, wire, rcvd >> ]_vars
    /\ (peer # "open") ~> (State = "FINISHED")

\* A session that processed a chunk has finished after the peer closed.
C10_Witness ==
    /\ peer = "closed"
    /\ pc = "done"
    /\ sent = rcvd
    /\ Count(engine_log, "process_iter") >= 1

\* C11: when the send of a result fails on a broken transport, process() ends
\* the session normally: it has returned, no exception has left it, and (the
\* session being over) no audio read, insert_audio_chunk or process_iter
\* follows.
C11_TransportBroken ==
    (calls # << >> /\ calls[Len(calls)].raised) => (pc = "done" /\ exc = None)

\* C12: when process_iter raises AssertionError in an iteration of the session
\* loop, the iteration emits nothing, the loop goes on to the next audio read
\* and the session stays STREAMING.
C12_EngineIterationFault ==
    [][ (pc = "iter" /\ engine_log' = engine_log \o << "insert_audio_chunk", Faulted >>)
        => (pc' = "recv" /\ State' = "STREAMING" /\ exc' = None
            /\ UNCHANGED << wire, emitted >>) ]_vars

\* The bytes send_one_line handed to the socket: those received and those
\* still under way.
Transmitted == data \o Flatten(chan)

HasByte(bytes, b) == \E i \in 1..Len(bytes) : bytes[i] = b

\* What comes before the last newline of bytes.
BeforeLastNL(bytes) ==
    LET last == CHOOSE i \in 1..Len(bytes) :
                    bytes[i] = "NL" /\ \A j \in (i + 1)..Len(bytes) : bytes[j] # "NL"
    IN  SubSeq(bytes, 1, last - 1)

\* C14: send_one_line normalises text to its first line, NUL counting as a
\* line terminator: what is transmitted before the terminating newline holds
\* no newline and no NUL and is the text up to its first line terminator or
\* NUL.
C14_FirstLineNormalized ==
    f_pc # "send" =>
        LET payload == BeforeLastNL(Transmitted)
        IN  /\ ~HasByte(payload, "NL")
            /\ ~HasByte(payload, "NUL")
            /\ payload = encode(FirstLine(text))

C16_NoneWhenExhausted ==
    r_pc = "done" => (line_rx = None <=> ~HasByte(data, "NUL"))

\* The source delivered bytes without NUL, ran dry, and the call returned None.
C16_Witness ==
    /\ r_pc = "done"
    /\ data # << >>
    /\ ~HasByte(data, "NUL")
    /\ line_rx = None

\* C16 as claimed: receive_one_line returns None only on a closed source with
\* no data; when the source delivered bytes and ran dry before a NUL, it
\* returns the first line of the bytes received, with a trailing newline.
C16_PartialDataReturned ==
    r_pc = "done" =>
        line_rx = (IF data = << >> THEN None ELSE Some(ReceivedLine(data)))

\* C17: audio reads never block: with the connection open and no audio bytes
\* to read, the non_blocking_receive_audio that receive_audio_chunk is in
\* returns to its caller, so the session can take a step.
C17_AudioReadsNeverBlock ==
    (pc = "recv" /\ SumLen(out) < minlimit /\ peer = "open" /\ rcvd = sent)
        => ENABLED (RecvAudio \/ RecvReturn)

\* C13: when the bytes received cannot be decoded as PCM, that chunk alone
\* is dropped and the session goes on: in the WebSocket adapter the handler
\* stays in its loop and audio_buffer holds no byte of the bad message
\* afterwards.
C13_MalformedAudioInput ==
    [][ (/\ Len(ws_in') = Len(ws_in) + 1
         /\ ws_in'[Len(ws_in')].kind = "bytes"
         /\ Len(audio_buffer) + ws_in'[Len(ws_in')].len >= min_chunk_size
         /\ (Len(audio_buffer) + ws_in'[Len(ws_in')].len) % 2 = 1)
        => (/\ ws_pc' = "open"
            /\ \A i \in 1..Len(audio_buffer') : audio_buffer'[i] # Len(ws_in')) ]_vars

\* C18: driver engine-call order: in each timing mode the calls made on the
\* engine are one or more pairs (insert_audio_chunk, process_iter) followed by
\* exactly one finish, the last call; in offline mode there is exactly one
\* pair and its insert carries the whole audio.
C18_EngineCallOrder ==
    /\ \A i \in 1..Len(d_log) :
          d_log[i] = "finish" => (i = Len(d_log) /\ d_pc = "done")
    /\ d_pc = "done" =>
          LET n == Len(d_log)
          IN  /\ n >= 3
              /\ n % 2 = 1
              /\ d_log[n] = "finish"
              /\ \A i \in 1..(n - 1) :
                    d_log[i] = (IF i % 2 = 1 THEN "insert_audio_chunk" ELSE "process_iter")
              /\ Len(d_chunks) = (n - 1) \div 2
    /\ (d_pc = "done" /\ offline) =>
          /\ Len(d_log) = 3
          /\ d_chunks[1].lo = 0
          /\ d_chunks[1].hi = NumSamples

\* A run in the simultaneous mode that made several pairs and then finish.
C18_Witness ==
    /\ d_pc = "done"
    /\ ~offline
    /\ ~comp_unaware
    /\ Len(d_log) >= 5
    /\ d_log[Len(d_log)] = "finish"

\* C19: computation-unaware chunking, for a start offset not beyond the
\* duration: the windows inserted are contiguous and start at the start
\* offset, each is one chunk duration long unless cut at the end of the audio,
\* no window end and no reported emission time is beyond the duration, and
\* the last window ends at the duration.
C19_CompUnawareChunking ==
    (comp_unaware /\ ~offline /\ start_at <= duration) =>
        /\ \A i \in 1..Len(d_chunks) :
              /\ d_chunks[i].beg = (IF i = 1 THEN start_at ELSE d_chunks[i - 1].end)
              /\ d_chunks[i].end <= duration
              /\ \/ d_chunks[i].end = d_chunks[i].beg + d_min_chunk
                 \/ d_chunks[i].end = duration
        /\ \A i \in 1..Len(d_out) : d_out[i].now <= duration
        /\ d_pc \in {"finish", "done"} => d_chunks[Len(d_chunks)].end = duration

\* C20: live pacing: in the simultaneous mode every chunk inserted, the first
\* one too, spans at least the min chunk duration, and the chunks are
\* contiguous from the start offset on.
C20_LivePacing ==
    (~comp_unaware /\ ~offline) =>
        \A i \in 1..Len(d_chunks) :
            /\ d_chunks[i].beg = (IF i = 1 THEN start_at ELSE d_chunks[i - 1].end)
            /\ d_chunks[i].end - d_chunks[i].beg >= d_min_chunk

\* C21: all three timing modes report output: every segment with a start
\* that process_iter or finish returned is written by output_transcript as
\* one line, in order, and a segment without a start writes nothing.
C21_AllModesReportOutput ==
    d_pc \in {"offline", "comp_unaware", "live", "finish", "done"} =>
        [i \in 1..Len(d_out) |-> d_out[i].seg] = SelectSeq(d_ret, HasStart)

\* The text of the lines printed, and the text of the segments returned.
EmittedText == Flatten([i \in 1..Len(d_out) |-> d_out[i].seg.text])

ReturnedText == Flatten([i \in 1..Len(d_ret) |-> d_ret[i].text])

\* C22: mode equivalence: the offline and the computation-unaware driver end
\* with the same emitted transcript text for the same audio.  The engine
\* returning the same text for the same audio in both, the two emit the same
\* text when each emits the text its engine returned.
C22_ModeEquivalence ==
    (d_pc = "done" /\ (offline \/ comp_unaware)) => EmittedText = ReturnedText

\* C23: startup configuration conflict: with --offline and --comp_unaware both
\* set the driver exits with a nonzero status, the engine not constructed and
\* no audio loaded, inserted or processed.
C23_StartupConfigConflict ==
    (offline /\ comp_unaware /\ d_pc # "start") =>
        /\ d_pc = "exited"
        /\ exit_code # None
        /\ exit_code[1] # 0
        /\ ~d_engine
        /\ d_loads = 0
        /\ d_log = << >>
        /\ d_chunks = << >>

\* The driver has exited on the two flags.
C23_Witness ==
    /\ offline
    /\ comp_unaware
    /\ d_pc = "exited"
    /\ exit_code = Some(1)

\* C24: decode cache: a path in the cache is served without decoding, so as
\* long as no more than the cache's maxsize of distinct paths have been
\* loaded, every path has been decoded at most once.
C24_DecodedOnceWithinMaxsize ==
    Cardinality({p \in Paths : decodes[p] > 0}) <= LRU_MAXSIZE
        => \A p \in Paths : decodes[p] <= 1

\* A path loaded by two requests, four calls of load_audio, decoded once.
C24_Witness ==
    \E p \in Paths :
        /\ Count(api_calls, p) >= 4
        /\ decodes[p] = 1
        /\ Cardinality({q \in Paths : decodes[q] > 0}) <= LRU_MAXSIZE

\* C24 as claimed: every path is decoded at most once, its entry never
\* replaced or put out of the cache.
C24_DecodedAtMostOnce == \A p \in Paths : decodes[p] <= 1

\* C25: session isolation of engine state: no two requests call the same
\* engine object.
C25_SessionIsolation ==
    \A i, j \in 1..Len(api_log) :
        api_log[i].obj = api_log[j].obj => api_log[i].req = api_log[j].req

\* The messages handle_client answers: the binary ones and the pings.
WsAnswered ==
    SelectSeq(ws_in, LAMBDA m : m.kind \in { "bytes", "ping" })

\* C26: WebSocket replies: every binary message has exactly one reply, a
\* transcript that carries recognised text and nothing else, or an ack whose
\* size is the byte length of the message; every ping has exactly one pong.
C26_WebSocketReplies ==
    /\ Len(ws_sent) = Len(WsAnswered)
    /\ \A i \in 1..Len(ws_sent) :
          IF WsAnswered[i].kind = "ping"
          THEN ws_sent[i].type = "pong"
          ELSE \/ ws_sent[i].type = "transcript" /\ ws_sent[i].text = WsText
               \/ ws_sent[i].type = "ack" /\ ws_sent[i].size = WsAnswered[i].len

\* C27: the WebSocket adapter carries no audio across messages: when
\* process_audio_chunk has handled a binary message that is not empty,
\* transcription done or failed, audio_buffer is empty.
C27_NoAudioAcrossMessages ==
    [][ (/\ Len(ws_in') = Len(ws_in) + 1
         /\ ws_in'[Len(ws_in')].kind = "bytes"
         /\ ws_in'[Len(ws_in')].len > 0)
        => audio_buffer' = << >> ]_vars

\* The lines that should come back: each line sent, with its newline.
StreamExpected ==
    [i \in 1..Len(st_lines) |->
        decode(encode(SplitlinesFirst(st_lines[i]))) \o << "NL" >>]

\* C28: framing is independent of how recv cuts the byte stream: successive
\* receive_one_line calls return the lines sent, in order, none lost and no
\* empty line added.
C28_SegmentationIndependent ==
    /\ Len(st_got) <= Len(st_lines)
    /\ \A i \in 1..Len(st_got) : st_got[i] = StreamExpected[i]
    /\ st_pc = "done" => st_got = StreamExpected

\* C29: every interval emitted in a live session is well formed: with engine
\* segments that have start <= end, the line of format_output_transcript has
\* start <= end, also with the start raised to the end emitted before.  o is
\* the segment of the last emission; the emissions before it being well
\* formed, their segments were (the start is only ever raised).
C29_EmittedIntervalWellFormed ==
    (/\ Len(emitted) >= 1
     /\ HasStart(o)
     /\ o.start[1] <= o.end[1]
     /\ \A i \in 1..(Len(emitted) - 1) : emitted[i].beg <= emitted[i].end)
        => emitted[Len(emitted)].beg <= emitted[Len(emitted)].end

\* C30: WebSocket temp-file cleanup: every file create_wav_from_pcm made is
\* recorded in temp_files, and none is left when handle_client has returned.
C30_TempFilesCleaned ==
    /\ ws_pc = "open" => ws_disk \subseteq { temp_files[i] : i \in 1..Len(temp_files) }
    /\ ws_pc = "closed" => ws_disk = {}

=============================================================================
